---- MODULE Spec2Model ----
(***************************************************************************)
(* tf-mdp: the training loop of PolicyOptimizer (tfmdp/train/optimizer.py), *)
(* the checkpointing of DeepReactivePolicy (tfmdp/train/policy.py) and the  *)
(* name lookups of PolicyOptimizationPlanner (tfmdp/planner.py).            *)
(*                                                                         *)
(* Three specifications share the variables:                               *)
(*   Spec         one PolicyOptimizer: build, then one call of run          *)
(*   SpecPolicy   one DeepReactivePolicy in a live session: save, restore   *)
(*   SpecPlanner  one PolicyOptimizationPlanner: __init__, build            *)
(***************************************************************************)
EXTENDS Integers, Sequences, FiniteSets, TLC

\* ------------------------------------------------------------------ bounds
MaxEpochs == 3      \* run(epochs) is called with epochs in 0..MaxEpochs
MaxHooks  == 2      \* hooks is None or a list of 0..MaxHooks hooks
MaxCalls  == 4      \* calls made on the policy / on the planner
RewardHi  == 2      \* rewards range up to RewardHi

\* sys.maxsize (run starts from reward = -sys.maxsize).  Rewards are float32
\* values; the model keeps their order and scales the unit so that the
\* threshold fits: some rewards lie below -maxsize, one on it, some above.
maxsize == 1

\* ------------------------------------------------------------- float values
NaN == [nan |-> TRUE, v |-> 0]
Num(x) == [nan |-> FALSE, v |-> x]

\* avg_total_reward of one step: NaN, finite values on both sides of
\* -sys.maxsize (the lowest one also stands for -inf).
RewardVals == {NaN} \cup {Num(x) : x \in (-maxsize - 1)..RewardHi}

\* loss of one step
LossVals == {0, 1}

\* values of the policy's parameter set (what a session holds, what a
\* checkpoint file holds)
ParamVals == {0, 1}

\* Python's  a > b  on floats: False as soon as one side is NaN
Gt(a, b) == ~a.nan /\ ~b.nan /\ a.v > b.v

\* ------------------------------------------------------------------- paths
None == "None"
DefaultPath == "/tmp/drp-fc-layers/model.ckpt"
Paths == {DefaultPath, "/ckpt/a"}
NoFile == [present |-> FALSE, val |-> 0]

VARIABLES
  \* PolicyOptimizer
  hooks,        \* self._hooks: [isNone, n]
  debug,        \* self._debug
  built,        \* build() has set _train_op, loss, avg_total_reward
  builds,       \* number of build() calls
  buildLog,     \* graph-construction steps of the last build() call
  \* one call of run
  pc,           \* "idle", "loop", "done", "aborted"
  epochs, step,
  reward, losses, rewards,
  sess,         \* "none", "open", "closed"
  trainWriter, testWriter,   \* steps written to logdir/train, logdir/test
  events,       \* what run did, in order
  measured,     \* per recorded improvement: the parameters its reward came from
  lastOut,      \* <<loss_, reward_>> of the last executed step, <<>> before it
  returned,     \* run's return value
  raised,       \* exception the last call ended with, "none" otherwise
  \* DeepReactivePolicy
  params,       \* live parameter values of the session
  saver,        \* self._saver is not None
  saverCreated, \* number of tf.train.Saver() constructions
  hasCheckpoint,\* the attribute self._checkpoint exists
  checkpoint,   \* self._checkpoint
  storage,      \* checkpoint files: path -> [present, val]
  saveLog,      \* completed saves, in order: [path, val]
  lastCall,     \* the last call made on the policy
  calls,
  \* PolicyOptimizationPlanner
  planner       \* the planner object and its last call

optVars == <<hooks, debug, built, builds, buildLog>>
runVars == <<pc, epochs, step, reward, losses, rewards, sess, trainWriter,
             testWriter, events, measured, lastOut, returned>>
polVars == <<params, saver, saverCreated, hasCheckpoint, checkpoint, storage,
             saveLog>>
vars == <<optVars, runVars, polVars, raised, lastCall, calls, planner>>

Ev(e, h, k) == [e |-> e, h |-> h, k |-> k]

NoCall == [op |-> "none", path |-> None, pre |-> 0, saves |-> 0]
NoPlanner == [made |-> FALSE, activation |-> None, logdir |-> None,
              optimizer |-> <<>>, op |-> "none", args |-> <<>>,
              lookups |-> <<>>, steps |-> <<>>]

\* ------------------------------------------------------------ construction
\* PolicyOptimizer.__init__ : nothing is built, hooks as given
\* DeepReactivePolicy.__init__ : _saver = None, no _checkpoint attribute
InitCommon ==
  /\ built = FALSE /\ builds = 0 /\ buildLog = <<>>
  /\ pc = "idle" /\ epochs = 0 /\ step = 0
  /\ reward = Num(0) /\ losses = <<>> /\ rewards = <<>>
  /\ trainWriter = <<>> /\ testWriter = <<>>
  /\ events = <<>> /\ measured = <<>> /\ lastOut = <<>> /\ returned = <<>>
  /\ raised = "none"
  /\ saver = FALSE /\ saverCreated = 0
  /\ hasCheckpoint = FALSE /\ checkpoint = None
  /\ storage = [p \in Paths |-> NoFile]
  /\ saveLog = <<>>
  /\ lastCall = NoCall /\ calls = 0
  /\ planner = NoPlanner

Init ==
  /\ InitCommon
  /\ hooks \in {[isNone |-> TRUE, n |-> 0]}
               \cup {[isNone |-> FALSE, n |-> n] : n \in 0..MaxHooks}
  /\ debug \in BOOLEAN
  /\ sess = "none"
  /\ params = 0

\* --------------------------------------------------- DeepReactivePolicy
\* (mutant: _checkpoint is only set when the default path is used)
save_forgets(val, save_path) ==
  LET path == IF save_path = None THEN DefaultPath ELSE save_path IN
  /\ saver' = TRUE
  /\ saverCreated' = IF saver THEN saverCreated ELSE saverCreated + 1
  /\ storage' = [storage EXCEPT ![path] = [present |-> TRUE, val |-> val]]
  /\ hasCheckpoint' = (hasCheckpoint \/ save_path = None)
  /\ checkpoint' = IF save_path = None THEN path ELSE checkpoint
  /\ saveLog' = Append(saveLog, [path |-> path, val |-> val])

\* save(sess, save_path): the session's values `val` go to the file
save(val, save_path) ==
  LET path == IF save_path = None THEN DefaultPath ELSE save_path IN
  /\ saver' = TRUE
  /\ saverCreated' = IF saver THEN saverCreated ELSE saverCreated + 1
  /\ storage' = [storage EXCEPT ![path] = [present |-> TRUE, val |-> val]]
  /\ hasCheckpoint' = TRUE
  /\ checkpoint' = path       \* Saver.save returns the path it wrote
  /\ saveLog' = Append(saveLog, [path |-> path, val |-> val])

\* (mutant: with no path known, restore returns without doing anything)
restore_silent(save_path) ==
  /\ saver' = TRUE
  /\ saverCreated' = IF saver THEN saverCreated ELSE saverCreated + 1
  /\ UNCHANGED <<storage, hasCheckpoint, checkpoint, saveLog>>
  /\ IF save_path = None /\ ~hasCheckpoint
       THEN /\ raised' = "none"
            /\ UNCHANGED params
       ELSE LET path == IF save_path = None THEN checkpoint ELSE save_path IN
            IF storage[path].present
              THEN /\ params' = storage[path].val
                   /\ raised' = "none"
              ELSE /\ raised' = "NotFoundError"
                   /\ UNCHANGED params

\* restore(sess, save_path): the Saver is created first; with no path the
\* attribute _checkpoint is read, which only save() ever sets
restore(save_path) ==
  /\ saver' = TRUE
  /\ saverCreated' = IF saver THEN saverCreated ELSE saverCreated + 1
  /\ UNCHANGED <<storage, hasCheckpoint, checkpoint, saveLog>>
  /\ IF save_path = None /\ ~hasCheckpoint
       THEN /\ raised' = "AttributeError"
            /\ UNCHANGED params
       ELSE LET path == IF save_path = None THEN checkpoint ELSE save_path IN
            IF storage[path].present
              THEN /\ params' = storage[path].val
                   /\ raised' = "none"
              ELSE /\ raised' = "NotFoundError"   \* Saver.restore: no such file
                   /\ UNCHANGED params

\* ------------------------------------------------------- PolicyOptimizer
\* build(): the six graph-construction steps, in order
BuildSteps(kernel_regularizer, bias_regularizer, dbg) ==
  <<"reward", "loss">>
  \o (IF kernel_regularizer THEN <<"kernel_regularization">> ELSE <<>>)
  \o (IF bias_regularizer THEN <<"bias_regularization">> ELSE <<>>)
  \o <<"optimization", "summary">>
  \o (IF dbg THEN <<"debug">> ELSE <<>>)

OptimizerBuild(kernel_regularizer, bias_regularizer) ==
  /\ built' = TRUE
  /\ builds' = builds + 1
  /\ buildLog' = BuildSteps(kernel_regularizer, bias_regularizer, debug)

Build ==
  /\ pc = "idle"
  /\ builds = 0         \* one build per optimizer
  /\ OptimizerBuild(FALSE, FALSE)   \* both regularizers at their default, None
  /\ UNCHANGED <<hooks, debug, runVars, polVars, raised, lastCall, calls, planner>>

\* _hooks_setup / _hooks_run / _hooks_teardown: every hook, in list order
HookCalls(kind, k) ==
  IF hooks.isNone THEN <<>> ELSE [i \in 1..hooks.n |-> Ev(kind, i, k)]

hooks_setup == HookCalls("setup", 0)

hooks_run(k) == HookCalls("call", k)

\* (mutant: teardown skipped)
hooks_teardown_skipped == <<>>

hooks_teardown == HookCalls("teardown", 0)

\* run, lines 64-85: the session is entered, the writers are made, the
\* locals are set, the hooks are set up, the variables are initialised
\* (baseline_flag keeps its default, False)
RunStart(e) ==
  /\ pc = "idle"
  /\ sess' = "open"
  /\ trainWriter' = <<>> /\ testWriter' = <<>>
  /\ reward' = Num(-maxsize)
  /\ losses' = <<>> /\ rewards' = <<>>
  /\ \E p0 \in ParamVals : params' = p0
  /\ events' = events \o <<Ev("enter", 0, 0)>> \o hooks_setup \o <<Ev("init", 0, 0)>>
  /\ epochs' = e /\ step' = 0
  /\ pc' = "loop"
  /\ UNCHANGED <<optVars, measured, lastOut, returned, raised, lastCall, calls, planner,
                 saver, saverCreated, hasCheckpoint, checkpoint, storage, saveLog>>

\* (mutants of the comparison of line 99)
ImprovesStale(reward_, best) == Gt(reward_, Num(-maxsize))

ImprovesGe(reward_, best) == ~reward_.nan /\ ~best.nan /\ reward_.v >= best.v

\* line 99
Improves(reward_, best) == Gt(reward_, best)

\* one iteration of the loop, lines 87-113.  loss_ and reward_ come from the
\* forward pass over the current parameters; the same sess.run applies the
\* update, after which the parameters are p.
Iteration(loss_, reward_, p) ==
  /\ pc = "loop" /\ step < epochs /\ built
  /\ params' = p
  /\ lastOut' = <<loss_, reward_>>
  /\ trainWriter' = Append(trainWriter, step)
  /\ IF Improves(reward_, reward)
       THEN /\ reward' = reward_
            /\ rewards' = Append(rewards, <<step, reward_>>)
            /\ losses' = Append(losses, <<step, loss_>>)
            /\ measured' = Append(measured, params)
            /\ testWriter' = Append(testWriter, step)
            /\ save(params', None)
            /\ events' = events \o <<Ev("train", 0, step), Ev("train_trace", 0, step),
                                     Ev("best_trace", 0, step), Ev("save", 0, step)>>
                                \o hooks_run(step)
       ELSE /\ UNCHANGED <<reward, rewards, losses, measured, testWriter,
                           saver, saverCreated, hasCheckpoint, checkpoint,
                           storage, saveLog>>
            /\ events' = events \o <<Ev("train", 0, step), Ev("train_trace", 0, step)>>
                                \o hooks_run(step)
  /\ step' = step + 1
  /\ UNCHANGED <<optVars, pc, epochs, sess, returned, raised, lastCall, calls, planner>>

\* (mutant: the session is not scoped by a with-block)
AbortLeak(exc) ==
  /\ pc' = "aborted"
  /\ raised' = exc
  /\ events' = events \o <<Ev("train_failed", 0, step)>>
  /\ UNCHANGED <<optVars, epochs, step, reward, losses, rewards, trainWriter, sess,
                 testWriter, measured, lastOut, returned, polVars, lastCall, calls, planner>>

\* leaving the with-block on an exception: the session is closed, nothing
\* else of run is executed
Abort(exc) ==
  /\ pc' = "aborted"
  /\ raised' = exc
  /\ sess' = "closed"
  /\ events' = events \o <<Ev("train_failed", 0, step), Ev("exit", 0, 0)>>
  /\ UNCHANGED <<optVars, epochs, step, reward, losses, rewards, trainWriter,
                 testWriter, measured, lastOut, returned, polVars, lastCall, calls, planner>>

\* line 94 when sess.run raises
StepFail ==
  /\ pc = "loop" /\ step < epochs /\ built
  /\ Abort("OpError")

\* line 94 on an optimizer build() never ran on: self._train_op does not exist
StepUnbuilt ==
  /\ pc = "loop" /\ step < epochs /\ ~built
  /\ Abort("AttributeError")

\* lines 115-117 and the end of the with-block
RunFinish ==
  /\ pc = "loop" /\ step = epochs
  /\ events' = events \o hooks_teardown \o <<Ev("exit", 0, 0)>>
  /\ sess' = "closed"
  /\ returned' = <<losses, rewards>>
  /\ pc' = "done"
  /\ UNCHANGED <<optVars, epochs, step, reward, losses, rewards, trainWriter,
                 testWriter, measured, lastOut, raised, polVars, lastCall, calls, planner>>

Next ==
  \/ Build
  \/ \E e \in 0..MaxEpochs : RunStart(e)
  \/ \E l \in LossVals, r \in RewardVals, p \in ParamVals : Iteration(l, r, p)
  \/ StepFail
  \/ StepUnbuilt
  \/ RunFinish

Spec == Init /\ [][Next]_vars

\* ------------------------------------------------ SpecPolicy: save, restore
InitPolicy ==
  /\ InitCommon
  /\ hooks = [isNone |-> TRUE, n |-> 0]
  /\ debug = FALSE
  /\ sess = "open"
  /\ \E p0 \in ParamVals : params = p0

Called(op, path) ==
  /\ calls < MaxCalls
  /\ calls' = calls + 1
  /\ lastCall' = [op |-> op, path |-> path, pre |-> params, saves |-> Len(saveLog)]

Save(save_path) ==
  /\ Called("save", save_path)
  /\ save(params, save_path)
  /\ raised' = "none"
  /\ UNCHANGED <<params, optVars, runVars, planner>>

Restore(save_path) ==
  /\ Called("restore", save_path)
  /\ restore(save_path)
  /\ UNCHANGED <<optVars, runVars, planner>>

\* an optimization step (sess.run of the train op) changes the live values
Mutate(p) ==
  /\ Called("step", None)
  /\ params' = p
  /\ raised' = "none"
  /\ UNCHANGED <<saver, saverCreated, hasCheckpoint, checkpoint, storage, saveLog,
                 optVars, runVars, planner>>

NextPolicy ==
  \/ \E sp \in Paths \cup {None} : Save(sp)
  \/ \E sp \in Paths \cup {None} : Restore(sp)
  \/ \E p \in ParamVals : Mutate(p)

SpecPolicy == InitPolicy /\ [][NextPolicy]_vars

\* ------------------------------------------- SpecPlanner: __init__, build
_loss_fn == {"linear", "mse", "huber"}

_non_linearities == {"none", "sigmoid", "tanh", "relu", "relu6", "crelu", "elu",
                     "selu", "softplus", "softsign"}

_optimizers == {"Adadelta", "Adagrad", "Adam", "GradientDescent",
                "ProximalGradientDescent", "ProximalAdagrad", "RMSProp"}

Unknown == "no-such-name"

\* (mutant: a lookup that yields None for a missing key, as dict.get does)
LookupNeverFails(table, name) == FALSE

\* table[name] on a dict raises KeyError when the name is not a key
LookupFails(table, name) == name \notin table

InitPlanner ==
  /\ InitCommon
  /\ hooks = [isNone |-> TRUE, n |-> 0]
  /\ debug = FALSE
  /\ sess = "none"
  /\ params = 0

\* PolicyOptimizationPlanner.__init__: the activation is looked up while the
\* arguments of DeepReactivePolicy(...) are evaluated
PlannerNew(activation, logdir) ==
  /\ ~planner.made
  /\ calls < MaxCalls
  /\ calls' = calls + 1
  /\ IF LookupFails(_non_linearities, activation)
       THEN /\ raised' = "KeyError"
            /\ planner' = [NoPlanner EXCEPT !.op = "init", !.args = <<activation>>,
                                            !.lookups = <<activation>>]
       ELSE /\ raised' = "none"
            /\ planner' = [NoPlanner EXCEPT !.made = TRUE, !.activation = activation,
                                            !.logdir = logdir, !.op = "init",
                                            !.args = <<activation>>,
                                            !.lookups = <<activation>>]
  /\ UNCHANGED <<optVars, runVars, polVars, lastCall>>

\* PolicyOptimizationPlanner.build: a new PolicyOptimizer is made and bound
\* first (positionally: model = compiler, logdir = policy, hooks = logdir);
\* then the arguments of its build are evaluated left to right, the two
\* lookups last; only then is PolicyOptimizer.build entered, the loss
\* function arriving as its fifth parameter, kernel_regularizer
PlannerBuild(optimizer, loss) ==
  /\ planner.made
  /\ calls < MaxCalls
  /\ calls' = calls + 1
  /\ UNCHANGED <<hooks, debug>>
  /\ LET ctor == <<"compiler", "policy", planner.logdir>>
         p1 == [planner EXCEPT !.optimizer = ctor, !.op = "build",
                               !.args = <<optimizer, loss>>]
     IN IF LookupFails(_optimizers, optimizer)
          THEN /\ raised' = "KeyError"
               /\ built' = FALSE /\ builds' = 0 /\ buildLog' = <<>>
               /\ planner' = [p1 EXCEPT !.lookups = <<optimizer>>, !.steps = <<>>]
          ELSE IF LookupFails(_loss_fn, loss)
          THEN /\ raised' = "KeyError"
               /\ built' = FALSE /\ builds' = 0 /\ buildLog' = <<>>
               /\ planner' = [p1 EXCEPT !.lookups = <<optimizer, loss>>, !.steps = <<>>]
          ELSE /\ raised' = "none"
               /\ built' = TRUE /\ builds' = 1
               /\ buildLog' = BuildSteps(TRUE, FALSE, FALSE)
               /\ planner' = [p1 EXCEPT !.lookups = <<optimizer, loss>>,
                                        !.steps = BuildSteps(TRUE, FALSE, FALSE)]
  /\ UNCHANGED <<runVars, polVars, lastCall>>

NextPlanner ==
  \/ \E a \in _non_linearities \cup {Unknown}, ld \in {None, "/log"} : PlannerNew(a, ld)
  \/ \E o \in _optimizers \cup {Unknown}, l \in _loss_fn \cup {Unknown} : PlannerBuild(o, l)

SpecPlanner == InitPlanner /\ [][NextPlanner]_vars

\* ================================================================ claims
Last(sq) == sq[Len(sq)]
StepsOf(h) == {h[i][1] : i \in 1..Len(h)}
Le(a, b) == ~a.nan /\ ~b.nan /\ a.v <= b.v
Monotone(h) ==
  \A i \in 1..(Len(h) - 1) : h[i][1] < h[i + 1][1] /\ Le(h[i][2], h[i + 1][2])
Finished == pc \in {"done", "aborted"}
Count(kind) == Cardinality({i \in 1..Len(events) : events[i].e = kind})

\* C1: after every iteration, and in what run returns, the recorded steps
\* are strictly increasing (in both histories) and the recorded rewards are
\* non-decreasing.
C1_HistoryMonotone ==
  /\ Monotone(rewards)
  /\ \A i \in 1..(Len(losses) - 1) : losses[i][1] < losses[i + 1][1]
  /\ pc = "done" =>
       /\ returned = <<losses, rewards>>
       /\ Monotone(returned[2])

C1_Witness == pc = "done" /\ Len(returned[2]) >= 3 /\ epochs = MaxEpochs

\* C2: every registered hook sees setup once (before the first optimization
\* step), then its callback once after each optimization step 0..epochs-1 in
\* step order, then teardown once after the last step; during the loop it
\* has seen the prefix of that order and nothing else.
RECURSIVE Rounds(_, _)
Rounds(h, n) ==
  IF n = 0 THEN <<>>
  ELSE Rounds(h, n - 1) \o <<Ev("train", 0, n - 1), Ev("call", h, n - 1)>>

HookView(h) ==
  SelectSeq(events, LAMBDA x : \/ x.e = "train"
                               \/ x.h = h /\ x.e \in {"setup", "call", "teardown"})

C2_HookCallOrder ==
  /\ hooks.isNone => Count("setup") + Count("call") + Count("teardown") = 0
  /\ ~hooks.isNone =>
       \A h \in 1..hooks.n :
         /\ pc = "idle" => HookView(h) = <<>>
         /\ pc = "loop" => HookView(h) = <<Ev("setup", h, 0)>> \o Rounds(h, step)
         /\ pc = "done" => HookView(h) = <<Ev("setup", h, 0)>> \o Rounds(h, epochs)
                                         \o <<Ev("teardown", h, 0)>>

C2_Witness == pc = "done" /\ epochs >= 2 /\ ~hooks.isNone /\ hooks.n >= 1

\* C3: a run on an optimizer that was never built ends in a failure, and
\* no hook was set up, no step ran and no trace was written before it.
C3_RunBeforeBuildFails ==
  (~built /\ Finished) =>
    /\ pc = "aborted" /\ raised # "none"
    /\ Count("setup") + Count("train") + Count("train_trace") = 0

\* C4: a run of a built optimizer that returns gives histories no longer
\* than epochs with every step in [0, epochs): empty for epochs = 0, and a
\* non-empty reward history for epochs >= 1.
C4_RunHistories ==
  (built /\ pc = "done") =>
    /\ Len(returned[1]) <= epochs /\ Len(returned[2]) <= epochs
    /\ StepsOf(returned[1]) \subseteq 0..(epochs - 1)
    /\ StepsOf(returned[2]) \subseteq 0..(epochs - 1)
    /\ epochs = 0 => returned = << <<>>, <<>> >>
    /\ epochs >= 1 => returned[2] # <<>>

\* C5: the train trace holds one entry per executed step; a step is
\* recorded (its (step, loss) and (step, reward) pairs, a best-trace entry and
\* a persisted checkpoint) exactly when its reward strictly exceeds the best
\* reward of the steps before it, starting from the initial best.
SavedSteps == {events[i].k : i \in {j \in 1..Len(events) : events[j].e = "save"}}

Best == IF rewards = <<>> THEN Num(-maxsize) ELSE Last(rewards)[2]

C5_State ==
  /\ trainWriter = [k \in 1..step |-> k - 1]
  /\ pc # "idle" => reward = Best
  /\ Len(losses) = Len(rewards)
  /\ \A i \in 1..Len(rewards) : losses[i][1] = rewards[i][1]
  /\ testWriter = [i \in 1..Len(rewards) |-> rewards[i][1]]
  /\ SavedSteps = StepsOf(rewards)
  /\ Len(saveLog) = Len(rewards)

C5_Step ==
  step' = step + 1 =>
    /\ trainWriter' = Append(trainWriter, step)
    /\ IF Gt(lastOut'[2], reward)
         THEN /\ rewards' = Append(rewards, <<step, lastOut'[2]>>)
              /\ losses' = Append(losses, <<step, lastOut'[1]>>)
              /\ testWriter' = Append(testWriter, step)
              /\ saveLog' = Append(saveLog, [path |-> DefaultPath, val |-> params'])
              /\ storage'[DefaultPath] = [present |-> TRUE, val |-> params']
         ELSE UNCHANGED <<rewards, losses, testWriter, saveLog, storage, reward>>

C8_StepFailureAborts ==
  /\ pc = "aborted" =>
       /\ raised # "none"
       /\ Len(events) >= 2
       /\ events[Len(events) - 1] = Ev("train_failed", 0, step)
       /\ Count("train_failed") = 1
       /\ Count("teardown") = 0
       /\ \A i \in 1..Len(events) :
            events[i].e \in {"train", "train_trace", "best_trace", "save", "call"}
              => events[i].k < step
       /\ Len(trainWriter) = step
  /\ Finished =>
       /\ sess = "closed"
       /\ Count("enter") = 1 /\ Count("exit") = 1
       /\ Last(events) = Ev("exit", 0, 0)
  /\ pc = "loop" => sess = "open" /\ Count("enter") = 1 /\ Count("exit") = 0

C8_Witness ==
  /\ pc = "aborted" /\ raised = "OpError" /\ step >= 1 /\ built
  /\ ~hooks.isNone /\ hooks.n >= 1 /\ Len(rewards) >= 1

\* C10: when a run returns with at least one improvement, the checkpoint
\* holds the parameter values with which the last recorded (the highest)
\* reward was measured.
C10_CheckpointIsBest ==
  (pc = "done" /\ rewards # <<>>) =>
    /\ storage[DefaultPath].present
    /\ storage[DefaultPath].val = Last(measured)

\* C6: restore with no path fails on a policy nothing was saved from, and
\* leaves the live parameters as they were; after a save it loads the file of
\* the most recent save.
C6_RestoreWithoutPath ==
  (lastCall.op = "restore" /\ lastCall.path = None) =>
    IF lastCall.saves = 0
      THEN raised = "AttributeError" /\ params = lastCall.pre
      ELSE /\ raised = "none"
           /\ checkpoint = Last(saveLog).path
           /\ params = storage[Last(saveLog).path].val

C6_Witness ==
  /\ lastCall.op = "restore" /\ lastCall.path = None /\ lastCall.saves = 0
  /\ raised = "AttributeError" /\ calls >= 2 /\ saver

\* C9: a restore with no path, or with the path of the most recent save,
\* brings back the values that save wrote, whatever happened to the live
\* values in between; one Saver is made, by the first save or restore.
C9_RoundTrip ==
  /\ (lastCall.op = "restore" /\ saveLog # <<>>
        /\ lastCall.path \in {None, Last(saveLog).path}) =>
       raised = "none" /\ params = Last(saveLog).val
  /\ saverCreated = (IF saver THEN 1 ELSE 0)
  /\ (lastCall.op \in {"save", "restore"} \/ saveLog # <<>>) => saver

C9_Witness ==
  /\ lastCall.op = "restore" /\ saveLog # <<>> /\ raised = "none"
  /\ lastCall.pre # Last(saveLog).val /\ params = Last(saveLog).val
  /\ calls >= 3

\* C7: a name that is in none of the lookup tables ends the call with the
\* lookup's failure: no step of PolicyOptimizer.build has run in that call
\* and the planner holds no built optimizer.
C7_UnknownNameFailsFast ==
  /\ (planner.op = "init" /\ planner.args[1] \notin _non_linearities) =>
       raised = "KeyError" /\ ~planner.made /\ planner.steps = <<>> /\ ~built
  /\ (planner.op = "build" /\ (planner.args[1] \notin _optimizers
                               \/ planner.args[2] \notin _loss_fn)) =>
       /\ raised = "KeyError"
       /\ planner.steps = <<>> /\ buildLog = <<>> /\ ~built /\ builds = 0

C7_Witness ==
  /\ planner.op = "build" /\ raised = "KeyError" /\ calls >= 3
  /\ planner.args[1] \in _optimizers /\ planner.args[2] \notin _loss_fn

====
